---- MODULE Spec2Model ----
(***************************************************************************)
(* A model of the html-parser crate: the scanning cursor (reader.rs), the  *)
(* tokenizer, the tree builder and the serializer (parser.rs).             *)
(*                                                                         *)
(* Text is modelled as Rust stores it: a sequence of UTF-8 bytes.  A byte  *)
(* is a one-character string; the two-byte characters of the model are     *)
(* U+00A0 (a white-space character, bytes "W1" "W2") and U+00E9 (a letter, *)
(* bytes "X1" "X2").  A character is named by its first byte.  Positions   *)
(* are byte offsets, as StrReader::pos is.                                 *)
(***************************************************************************)
EXTENDS Integers, Sequences, FiniteSets, TLC

VARIABLES
    data,         \* the input text (StrReader::data)
    pos,          \* the cursor position (StrReader::pos)
    pc,           \* where the run is: "tokenize", "build", "done", "serialized",
                  \* "reparsed"; "reader" and "panic" for a bare cursor
    ast,          \* tokenize_html: the tokens pushed so far
    tokens,       \* what tokenize_html returned
    idx,          \* parse_html: the number of tokens the for loop has consumed
    token_stack,  \* parse_html: the open elements, most recent first
    elements,     \* parse_html: the forest so far
    result,       \* what parse_html returned
    html,         \* what html_to_string returned for the forest
    reparsed,     \* what parse_html returned for html
    last          \* the last operation of a bare cursor and what it returned

vars == <<data, pos, pc, ast, tokens, idx, token_stack, elements, result,
          html, reparsed, last>>

(***************************************************************************)
(* Bounds of the model.                                                    *)
(***************************************************************************)
\* the longest input of the parser, in fragments
MaxFrags == 4
\* the longest source of a bare cursor, in characters
MaxChars == 3
\* the largest step of skip(n) tried on a bare cursor
MaxSkip == 2
\* how far beyond the end of the source a bare cursor is driven
MaxOver == 2

(***************************************************************************)
(* Characters.                                                             *)
(***************************************************************************)
\* second bytes of the two-byte characters: no character starts there
Continuation == {"W2", "X2"}

\* the characters of the model, each named by its first byte
Chars == {"<", ">", "/", "!", " ", "=", "\"", "a", "b", "c", "d", "t", "v", "W1", "X1"}

\* char::is_whitespace
IsWhitespace(ch) == ch \in {" ", "W1"}

\* char::len_utf8
LenUtf8(ch) == IF ch \in {"W1", "X1"} THEN 2 ELSE 1

\* the UTF-8 encoding of a character
Encode(ch) == IF ch = "W1" THEN <<"W1", "W2">>
              ELSE IF ch = "X1" THEN <<"X1", "X2">>
              ELSE <<ch>>

\* str::is_char_boundary: what slicing a str at byte offset p requires
IsCharBoundary(d, p) ==
    \/ p = 0
    \/ p = Len(d)
    \/ p < Len(d) /\ d[p + 1] \notin Continuation

\* Option<&str>
None == [some |-> FALSE, val |-> <<>>]
Some(v) == [some |-> TRUE, val |-> v]

(***************************************************************************)
(* The cursor (StrReader; SliceReader is the same over one-item            *)
(* characters).  Every operation that slices the source panics when the    *)
(* position is no character boundary of it, which includes every position  *)
(* beyond its end.                                                         *)
(***************************************************************************)
\* StrReader::rest: &self.data[self.pos..]
Rest(d, p) ==
    IF IsCharBoundary(d, p)
    THEN [kind |-> "ok", span |-> SubSeq(d, p + 1, Len(d))]
    ELSE [kind |-> "panic", span |-> <<>>]

\* StrReader::is_eof
IsEof(d, p) == p >= Len(d)

\* StrReader::end
End(d) == Len(d)

\* StrReader::skip
Skip(p, n) == p + n

\* StrReader::reset
Reset == 0

\* StrReader::seek: self.rest().chars().nth(0)
Seek(d, p) ==
    LET r == Rest(d, p) IN
    IF r.kind = "panic" THEN [kind |-> "panic", ch |-> ""]
    ELSE IF r.span = <<>> THEN [kind |-> "none", ch |-> ""]
    ELSE [kind |-> "some", ch |-> Head(r.span)]

\* str::find(char) / Iterator::position: offset of the first occurrence of
\* character c in s scanning from offset k, or -1 for None
RECURSIVE FindFrom(_, _, _)
FindFrom(s, c, k) ==
    IF k >= Len(s) THEN -1
    ELSE IF s[k + 1] = c THEN k
    ELSE FindFrom(s, c, k + 1)

Find(s, c) == FindFrom(s, c, 0)

\* StrReader::skip_while; the predicate f is the set P of characters it accepts
RECURSIVE SkipWhile(_, _, _)
SkipWhile(d, p, P) ==
    LET s == Seek(d, p) IN
    IF s.kind = "panic" THEN [kind |-> "panic", pos |-> p]
    ELSE IF s.kind = "none" THEN [kind |-> "ok", pos |-> p]
    ELSE IF s.ch \in P THEN SkipWhile(d, Skip(p, 1), P)
    ELSE [kind |-> "ok", pos |-> p]

\* a faulty read_until: the delimiter is consumed with the span
ReadUntilPosPastDelim(p, i) == p + i + 1

\* where read_until leaves the position when the delimiter is at offset i
ReadUntilPos(p, i) == p + i

\* StrReader::read_until / SliceReader::read_until
ReadUntil(d, p, delim) ==
    LET r == Rest(d, p) IN
    IF r.kind = "panic" THEN [kind |-> "panic", span |-> <<>>, pos |-> p]
    ELSE LET i == Find(r.span, delim) IN
         IF i >= 0
         THEN [kind |-> "ok", span |-> SubSeq(d, p + 1, p + i),
               pos |-> ReadUntilPos(p, i)]
         ELSE [kind |-> "err", span |-> <<>>, pos |-> p]

\* StrReader::seek_until / SliceReader::seek_until
SeekUntil(d, p, delim) ==
    LET r == Rest(d, p) IN
    IF r.kind = "panic" THEN [kind |-> "panic", span |-> <<>>]
    ELSE LET i == Find(r.span, delim) IN
         IF i >= 0 THEN [kind |-> "some", span |-> SubSeq(d, p + 1, p + i)]
         ELSE [kind |-> "none", span |-> <<>>]

(***************************************************************************)
(* String operations of the standard library the tokenizer uses.           *)
(***************************************************************************)
\* the last character of a non-empty string
LastChar(s) == IF s[Len(s)] \in Continuation THEN s[Len(s) - 1] ELSE s[Len(s)]

\* str::trim_start
RECURSIVE TrimStart(_)
TrimStart(s) ==
    IF s # <<>> /\ IsWhitespace(Head(s))
    THEN TrimStart(SubSeq(s, LenUtf8(Head(s)) + 1, Len(s)))
    ELSE s

\* str::trim_end
RECURSIVE TrimEnd(_)
TrimEnd(s) ==
    IF s # <<>> /\ IsWhitespace(LastChar(s))
    THEN TrimEnd(SubSeq(s, 1, Len(s) - LenUtf8(LastChar(s))))
    ELSE s

\* str::trim
Trim(s) == TrimEnd(TrimStart(s))

\* str::trim_matches(c): every leading and every trailing c is removed
RECURSIVE TrimMatchesStart(_, _)
TrimMatchesStart(s, c) ==
    IF s # <<>> /\ Head(s) = c THEN TrimMatchesStart(Tail(s), c) ELSE s

RECURSIVE TrimMatchesEnd(_, _)
TrimMatchesEnd(s, c) ==
    IF s # <<>> /\ s[Len(s)] = c
    THEN TrimMatchesEnd(SubSeq(s, 1, Len(s) - 1), c)
    ELSE s

TrimMatches(s, c) == TrimMatchesEnd(TrimMatchesStart(s, c), c)

\* the offset of the first c after offset k of s that is outside double quotes
RECURSIVE FindUnquoted(_, _, _, _)
FindUnquoted(s, c, k, quoted) ==
    IF k >= Len(s) THEN -1
    ELSE IF s[k + 1] = "\"" THEN FindUnquoted(s, c, k + 1, ~quoted)
    ELSE IF s[k + 1] = c /\ ~quoted THEN k
    ELSE FindUnquoted(s, c, k + 1, quoted)

\* a faulty split: an occurrence of c between double quotes does not cut
RECURSIVE SplitUnquoted(_, _)
SplitUnquoted(s, c) ==
    LET i == FindUnquoted(s, c, 0, FALSE) IN
    IF i < 0 THEN <<s>>
    ELSE <<SubSeq(s, 1, i)>> \o SplitUnquoted(SubSeq(s, i + 2, Len(s)), c)

\* str::split(c): the pieces between the occurrences of c, empty ones kept
RECURSIVE Split(_, _)
Split(s, c) ==
    LET i == Find(s, c) IN
    IF i < 0 THEN <<s>>
    ELSE <<SubSeq(s, 1, i)>> \o Split(SubSeq(s, i + 2, Len(s)), c)

(***************************************************************************)
(* Tokens (HtmlAst).                                                       *)
(***************************************************************************)
StartTag(name) == [type |-> "StartTag", name |-> name, value |-> None]
Attribute(name, value) == [type |-> "Attribute", name |-> name, value |-> value]
EndTag == [type |-> "EndTag", name |-> <<>>, value |-> None]
Text(text) == [type |-> "Text", name |-> text, value |-> None]

\* HtmlError, as the err field of a result
DelimNotFound == "ReaderError(DelimNotFound)"
InvalidAst == "InvalidAst"

(***************************************************************************)
(* tokenize_html.  One iteration of its loop is TokenizeIter; it yields    *)
(* kind "run" (the loop goes on), "ok" (break: Ok(ast)), "err" (the ?      *)
(* returned a reader error) or "panic".                                    *)
(***************************************************************************)
\* the predicate of the skip_while at the top of the loop
WhitespaceChars == {ch \in Chars : IsWhitespace(ch)}

\* the predicate of the skip_while that skips a comment: ch != '>'
CommentChars == Chars \ {">"}

\* the Attribute token of one fragment of a tag's attribute text
AttrToken(attr) ==
    LET i == Find(attr, "=")
        name == IF i >= 0 THEN SubSeq(attr, 1, i) ELSE attr
        value == IF i >= 0 THEN Some(SubSeq(attr, i + 2, Len(attr))) ELSE None
    IN Attribute(Trim(name),
                 IF value.some THEN Some(TrimMatches(Trim(value.val), "\""))
                 ELSE None)

\* the elements of a sequence in reverse order
Reverse(q) == [k \in 1..Len(q) |-> q[Len(q) + 1 - k]]

\* a faulty tokenizer: the attributes of a tag are pushed right to left
TagTokensReversed(tag) ==
    LET i == Find(tag, " ") IN
    IF i < 0 THEN <<StartTag(tag)>>
    ELSE LET attrs == Reverse(Split(Trim(SubSeq(tag, i + 1, Len(tag))), " ")) IN
         <<StartTag(SubSeq(tag, 1, i))>>
             \o [k \in 1..Len(attrs) |-> AttrToken(attrs[k])]

\* the tokens of the text between '<' and '>' of a start tag
TagTokens(tag) ==
    LET i == Find(tag, " ") IN
    IF i < 0 THEN <<StartTag(tag)>>
    ELSE LET attrs == Split(Trim(SubSeq(tag, i + 1, Len(tag))), " ") IN
         <<StartTag(SubSeq(tag, 1, i))>>
             \o [k \in 1..Len(attrs) |-> AttrToken(attrs[k])]

\* '<' '/': the cursor p is just after the '<'
TokEndTagStep(d, p, a) ==
    LET r == ReadUntil(d, p, ">") IN
    IF r.kind = "ok" THEN [kind |-> "run", pos |-> Skip(r.pos, 1), ast |-> Append(a, EndTag)]
    ELSE [kind |-> r.kind, pos |-> r.pos, ast |-> Append(a, EndTag)]

\* '<' '!': the cursor p is just after the '<'
TokCommentStep(d, p, a) ==
    LET r == SkipWhile(d, Skip(p, 1), CommentChars) IN
    IF r.kind = "ok" THEN [kind |-> "run", pos |-> Skip(r.pos, 1), ast |-> a]
    ELSE [kind |-> "panic", pos |-> r.pos, ast |-> a]

\* a faulty tokenizer: a start tag that no '>' follows takes the rest of the input
TokStartTagStepLenient(d, p, a) ==
    LET r == ReadUntil(d, p, ">") IN
    IF r.kind = "ok"
    THEN [kind |-> "run", pos |-> Skip(r.pos, 1), ast |-> a \o TagTokens(r.span)]
    ELSE [kind |-> "run", pos |-> Len(d),
          ast |-> a \o TagTokens(SubSeq(d, p + 1, Len(d)))]

\* '<' then anything else, end of input included: the cursor p is just after the '<'
TokStartTagStep(d, p, a) ==
    LET r == ReadUntil(d, p, ">") IN
    IF r.kind = "ok"
    THEN [kind |-> "run", pos |-> Skip(r.pos, 1), ast |-> a \o TagTokens(r.span)]
    ELSE [kind |-> r.kind, pos |-> r.pos, ast |-> a]

\* a faulty tokenizer: a text run that no '<' follows becomes a Text token
TokTextStepTrailing(d, p, a) ==
    LET r == ReadUntil(d, p, "<") IN
    IF r.kind = "ok" THEN [kind |-> "run", pos |-> r.pos, ast |-> Append(a, Text(r.span))]
    ELSE [kind |-> "run", pos |-> Len(d),
          ast |-> Append(a, Text(SubSeq(d, p + 1, Len(d))))]

\* a faulty tokenizer: a text run that follows a tag is scanned twice
TokTextStepRescan(d, p, a) ==
    LET r == ReadUntil(d, p, "<") IN
    IF r.kind = "ok"
    THEN [kind |-> "run",
          pos |-> IF a # <<>> /\ a[Len(a)].type = "Text" THEN r.pos ELSE p,
          ast |-> Append(a, Text(r.span))]
    ELSE [kind |-> r.kind, pos |-> r.pos, ast |-> a]

\* any other character: a text run
TokTextStep(d, p, a) ==
    LET r == ReadUntil(d, p, "<") IN
    IF r.kind = "ok" THEN [kind |-> "run", pos |-> r.pos, ast |-> Append(a, Text(r.span))]
    ELSE [kind |-> r.kind, pos |-> r.pos, ast |-> a]

\* the arm of the loop body taken with the cursor at p
TokBranch(d, p) ==
    LET w == SkipWhile(d, p, WhitespaceChars) IN
    IF w.kind = "panic" THEN "panic"
    ELSE LET s == Seek(d, w.pos) IN
         IF s.kind = "none" THEN "eof"
         ELSE IF s.ch # "<" THEN "text"
         ELSE LET n == Seek(d, Skip(w.pos, 1)) IN
              IF n.kind = "some" /\ n.ch = "/" THEN "endtag"
              ELSE IF n.kind = "some" /\ n.ch = "!" THEN "comment"
              ELSE "starttag"

\* one iteration of the loop
TokenizeIter(d, p, a) ==
    LET w == SkipWhile(d, p, WhitespaceChars)
        b == TokBranch(d, p)
    IN  IF b = "panic" THEN [kind |-> "panic", pos |-> w.pos, ast |-> a]
        ELSE IF b = "eof" THEN [kind |-> "ok", pos |-> w.pos, ast |-> a]
        ELSE IF b = "text" THEN TokTextStep(d, w.pos, a)
        ELSE IF b = "endtag" THEN TokEndTagStep(d, Skip(w.pos, 1), a)
        ELSE IF b = "comment" THEN TokCommentStep(d, Skip(w.pos, 1), a)
        ELSE TokStartTagStep(d, Skip(w.pos, 1), a)

\* what a run of the tokenizer returns
TokResult(r) ==
    IF r.kind = "ok" THEN [kind |-> "ok", err |-> "", val |-> r.ast]
    ELSE IF r.kind = "err" THEN [kind |-> "err", err |-> DelimNotFound, val |-> <<>>]
    ELSE [kind |-> "panic", err |-> "", val |-> <<>>]

RECURSIVE TokenizeFrom(_, _, _)
TokenizeFrom(d, p, a) ==
    LET r == TokenizeIter(d, p, a) IN
    IF r.kind = "run" THEN TokenizeFrom(d, r.pos, r.ast) ELSE TokResult(r)

\* tokenize_html(data)
TokenizeHtml(d) == TokenizeFrom(d, 0, <<>>)

(***************************************************************************)
(* Elements (lib.rs).                                                      *)
(***************************************************************************)
\* HtmlAttribute::new
HtmlAttribute(name, value) == [name |-> name, value |-> value]

\* HtmlElement::new
HtmlElement(tag) ==
    [tag |-> tag, attributes |-> <<>>, children |-> <<>>, inner_text |-> None]

\* HtmlElement::add_attribute
AddAttribute(e, name, value) ==
    [e EXCEPT !.attributes = Append(@, HtmlAttribute(name, value))]

\* HtmlElement::add_child
AddChild(e, child) == [e EXCEPT !.children = Append(@, child)]

\* a faulty builder: the first text run of an element is kept
SetInnerTextKeepFirst(e, text) ==
    IF e.inner_text.some THEN e ELSE [e EXCEPT !.inner_text = Some(text)]

\* the assignment element.inner_text = Some(text)
SetInnerText(e, text) == [e EXCEPT !.inner_text = Some(text)]

(***************************************************************************)
(* parse_html: the tree builder.  token_stack holds the open elements, the *)
(* most recently opened first; elements is the forest.                     *)
(***************************************************************************)
\* a faulty builder: a start tag inside an open element takes its place
BuildStartTagStepReplace(st, el, tok) ==
    [kind |-> "run",
     stack |-> <<HtmlElement(tok.name)>> \o (IF st = <<>> THEN st ELSE Tail(st)),
     elements |-> el]

\* HtmlAst::StartTag: token_stack.insert(0, ..)
BuildStartTagStep(st, el, tok) ==
    [kind |-> "run", stack |-> <<HtmlElement(tok.name)>> \o st, elements |-> el]

\* HtmlAst::Attribute
BuildAttributeStep(st, el, tok) ==
    IF st = <<>> THEN [kind |-> "err", stack |-> st, elements |-> el]
    ELSE [kind |-> "run",
          stack |-> [st EXCEPT ![1] = AddAttribute(@, tok.name, tok.value)],
          elements |-> el]

\* a faulty builder: a closed element is put before its siblings
BuildEndTagStepPrepend(st, el, tok) ==
    IF st = <<>> THEN [kind |-> "panic", stack |-> st, elements |-> el]
    ELSE LET element == Head(st)
             rest == Tail(st)
         IN  IF rest # <<>>
             THEN [kind |-> "run",
                   stack |-> [rest EXCEPT ![1] =
                                 [@ EXCEPT !.children = <<element>> \o @]],
                   elements |-> el]
             ELSE [kind |-> "run", stack |-> rest, elements |-> <<element>> \o el]

\* HtmlAst::EndTag: Vec::remove(0) panics on an empty vector
BuildEndTagStep(st, el, tok) ==
    IF st = <<>> THEN [kind |-> "panic", stack |-> st, elements |-> el]
    ELSE LET element == Head(st)
             rest == Tail(st)
         IN  IF rest # <<>>
             THEN [kind |-> "run",
                   stack |-> [rest EXCEPT ![1] = AddChild(@, element)],
                   elements |-> el]
             ELSE [kind |-> "run", stack |-> rest, elements |-> Append(el, element)]

\* a faulty builder: a text run outside every element is dropped
BuildTextStepIgnore(st, el, tok) ==
    IF st = <<>> THEN [kind |-> "run", stack |-> st, elements |-> el]
    ELSE [kind |-> "run",
          stack |-> [st EXCEPT ![1] = [@ EXCEPT !.inner_text = Some(tok.name)]],
          elements |-> el]

\* HtmlAst::Text
BuildTextStep(st, el, tok) ==
    IF st = <<>> THEN [kind |-> "err", stack |-> st, elements |-> el]
    ELSE [kind |-> "run",
          stack |-> [st EXCEPT ![1] = SetInnerText(@, tok.name)],
          elements |-> el]

\* the body of the for loop, for one token
BuildToken(st, el, tok) ==
    IF tok.type = "StartTag" THEN BuildStartTagStep(st, el, tok)
    ELSE IF tok.type = "Attribute" THEN BuildAttributeStep(st, el, tok)
    ELSE IF tok.type = "EndTag" THEN BuildEndTagStep(st, el, tok)
    ELSE BuildTextStep(st, el, tok)

\* a faulty builder: the forest is returned whatever is still open
BuildFinishLenient(st, el) == [kind |-> "ok", err |-> "", val |-> el]

\* after the loop: Ok(elements) when no element is open
BuildFinish(st, el) ==
    IF st = <<>> THEN [kind |-> "ok", err |-> "", val |-> el]
    ELSE [kind |-> "err", err |-> InvalidAst, val |-> <<>>]

\* what parse_html returns when the loop stops at a token
BuildAbort(r) ==
    IF r.kind = "err" THEN [kind |-> "err", err |-> InvalidAst, val |-> <<>>]
    ELSE [kind |-> "panic", err |-> "", val |-> <<>>]

RECURSIVE BuildFrom(_, _, _, _)
BuildFrom(toks, i, st, el) ==
    IF i > Len(toks) THEN BuildFinish(st, el)
    ELSE LET r == BuildToken(st, el, toks[i]) IN
         IF r.kind = "run" THEN BuildFrom(toks, i + 1, r.stack, r.elements)
         ELSE BuildAbort(r)

\* parse_html(data)
ParseHtml(d) ==
    LET t == TokenizeHtml(d) IN
    IF t.kind = "ok" THEN BuildFrom(t.val, 1, <<>>, <<>>) ELSE t

(***************************************************************************)
(* html_to_string.                                                         *)
(***************************************************************************)
\* a faulty serializer: a valueless attribute is rendered with an empty value
AttrToStringNoneAsEmpty(attr) ==
    <<" ">> \o attr.name \o <<"=", "\"">> \o attr.value.val \o <<"\"">>

\* one attribute: format!(" {}=\"{}\"", name, value) or format!(" {}", name)
AttrToString(attr) ==
    IF attr.value.some
    THEN <<" ">> \o attr.name \o <<"=", "\"">> \o attr.value.val \o <<"\"">>
    ELSE <<" ">> \o attr.name

RECURSIVE AttrsToString(_)
AttrsToString(attrs) ==
    IF attrs = <<>> THEN <<>>
    ELSE AttrToString(Head(attrs)) \o AttrsToString(Tail(attrs))

RECURSIVE HtmlToString(_)
\* a faulty serializer: the children are rendered after the inner text
ContentToStringBoth(e) ==
    IF e.inner_text.some THEN e.inner_text.val \o HtmlToString(e.children)
    ELSE HtmlToString(e.children)

\* the text an element's content is rendered as
ContentToString(e) ==
    IF e.inner_text.some THEN e.inner_text.val ELSE HtmlToString(e.children)

\* one element
ElementToString(e) ==
    IF Len(e.attributes) > 0
    THEN <<"<">> \o e.tag \o AttrsToString(e.attributes) \o <<">">>
             \o ContentToString(e) \o <<"<", "/">> \o e.tag \o <<">">>
    ELSE <<"<">> \o e.tag \o <<">">>
             \o ContentToString(e) \o <<"<", "/">> \o e.tag \o <<">">>

\* html_to_string(elements)
HtmlToString(els) ==
    IF els = <<>> THEN <<>>
    ELSE ElementToString(Head(els)) \o HtmlToString(Tail(els))

(***************************************************************************)
(* The inputs of the model are built from these fragments.                 *)
(***************************************************************************)
FragStart == <<"<", "a", ">">>
FragEnd == <<"<", "/", "a", ">">>
FragText == <<"t">>
FragChildText == <<"<", "a", ">", "<", "/", "a", ">", "v">>
FragSpace == <<" ">>
FragComment == <<"<", "!", "c", ">">>
FragAttrs == <<"<", "a", " ", "b", "=", "\"", "v", "\"", " ", "d", ">">>
FragNbsp == <<"W1", "W2">>
FragEmpty == <<"<", "a", ">", "<", "/", "a", ">">>
FragCommentNbsp == <<"<", "!", "W1", "W2", ">">>

Fragments == {FragStart, FragEnd, FragText, FragChildText, FragSpace, FragComment, FragAttrs,
              FragNbsp, FragEmpty, FragCommentNbsp}

RECURSIVE Flatten(_)
Flatten(fs) == IF fs = <<>> THEN <<>> ELSE Head(fs) \o Flatten(Tail(fs))

\* the concatenations of at most MaxFrags fragments
Whole == {Flatten(fs) : fs \in UNION {[1..n -> Fragments] : n \in 0..MaxFrags}}

\* the same, and those that end in '>' with that '>' cut off: inputs that end
\* inside a start tag, a close tag or a comment
Inputs ==
    Whole \cup {SubSeq(w, 1, Len(w) - 1) : w \in {x \in Whole : x # <<>> /\ x[Len(x)] = ">"}}

NoResult == [kind |-> "none", err |-> "", val |-> <<>>]
NoLast == [op |-> "none", from |-> 0, arg |-> "", pred |-> {}, kind |-> "",
           ch |-> "", span |-> <<>>]

(***************************************************************************)
(* The parser: parse_html(data), then html_to_string of the forest it      *)
(* returned, then parse_html of that text.                                 *)
(***************************************************************************)
Init ==
    /\ data \in Inputs
    /\ pos = 0
    /\ pc = "tokenize"
    /\ ast = <<>>
    /\ tokens = NoResult
    /\ idx = 0
    /\ token_stack = <<>>
    /\ elements = <<>>
    /\ result = NoResult
    /\ html = <<>>
    /\ reparsed = NoResult
    /\ last = NoLast

\* the state after a loop iteration of tokenize_html that yielded r; an error
\* of the tokenizer is what parse_html returns (the ? of line 79)
TokAdvance(r) ==
    /\ pos' = r.pos
    /\ ast' = r.ast
    /\ tokens' = IF r.kind = "run" THEN tokens ELSE TokResult(r)
    /\ pc' = IF r.kind = "run" THEN "tokenize"
             ELSE IF r.kind = "ok" THEN "build" ELSE "done"
    /\ result' = IF r.kind \in {"run", "ok"} THEN result ELSE TokResult(r)
    /\ UNCHANGED <<data, idx, token_stack, elements, html, reparsed, last>>

TokPanic ==
    /\ pc = "tokenize"
    /\ TokBranch(data, pos) = "panic"
    /\ TokAdvance(TokenizeIter(data, pos, ast))

TokEof ==
    /\ pc = "tokenize"
    /\ TokBranch(data, pos) = "eof"
    /\ TokAdvance(TokenizeIter(data, pos, ast))

TokEndTag ==
    /\ pc = "tokenize"
    /\ TokBranch(data, pos) = "endtag"
    /\ TokAdvance(TokenizeIter(data, pos, ast))

TokComment ==
    /\ pc = "tokenize"
    /\ TokBranch(data, pos) = "comment"
    /\ TokAdvance(TokenizeIter(data, pos, ast))

TokStartTag ==
    /\ pc = "tokenize"
    /\ TokBranch(data, pos) = "starttag"
    /\ TokAdvance(TokenizeIter(data, pos, ast))

TokText ==
    /\ pc = "tokenize"
    /\ TokBranch(data, pos) = "text"
    /\ TokAdvance(TokenizeIter(data, pos, ast))

\* the state after the for loop of parse_html has processed one token
BuildAdvance(r) ==
    /\ idx' = idx + 1
    /\ token_stack' = r.stack
    /\ elements' = r.elements
    /\ pc' = IF r.kind = "run" THEN "build" ELSE "done"
    /\ result' = IF r.kind = "run" THEN result ELSE BuildAbort(r)
    /\ UNCHANGED <<data, pos, ast, tokens, html, reparsed, last>>

BuildStartTag ==
    /\ pc = "build"
    /\ idx < Len(tokens.val)
    /\ tokens.val[idx + 1].type = "StartTag"
    /\ BuildAdvance(BuildToken(token_stack, elements, tokens.val[idx + 1]))

BuildAttribute ==
    /\ pc = "build"
    /\ idx < Len(tokens.val)
    /\ tokens.val[idx + 1].type = "Attribute"
    /\ BuildAdvance(BuildToken(token_stack, elements, tokens.val[idx + 1]))

BuildEndTag ==
    /\ pc = "build"
    /\ idx < Len(tokens.val)
    /\ tokens.val[idx + 1].type = "EndTag"
    /\ BuildAdvance(BuildToken(token_stack, elements, tokens.val[idx + 1]))

BuildText ==
    /\ pc = "build"
    /\ idx < Len(tokens.val)
    /\ tokens.val[idx + 1].type = "Text"
    /\ BuildAdvance(BuildToken(token_stack, elements, tokens.val[idx + 1]))

BuildEnd ==
    /\ pc = "build"
    /\ idx = Len(tokens.val)
    /\ pc' = "done"
    /\ result' = BuildFinish(token_stack, elements)
    /\ UNCHANGED <<data, pos, ast, tokens, idx, token_stack, elements, html,
                   reparsed, last>>

Serialize ==
    /\ pc = "done"
    /\ result.kind = "ok"
    /\ html' = HtmlToString(result.val)
    /\ pc' = "serialized"
    /\ UNCHANGED <<data, pos, ast, tokens, idx, token_stack, elements, result,
                   reparsed, last>>

Reparse ==
    /\ pc = "serialized"
    /\ reparsed' = ParseHtml(html)
    /\ pc' = "reparsed"
    /\ UNCHANGED <<data, pos, ast, tokens, idx, token_stack, elements, result,
                   html, last>>

Next ==
    \/ TokPanic
    \/ TokEof
    \/ TokEndTag
    \/ TokComment
    \/ TokStartTag
    \/ TokText
    \/ BuildStartTag
    \/ BuildAttribute
    \/ BuildEndTag
    \/ BuildText
    \/ BuildEnd
    \/ Serialize
    \/ Reparse

Spec == Init /\ [][Next]_vars

(***************************************************************************)
(* A bare cursor: a StrReader over a source, driven by any sequence of its *)
(* operations.  last records the operation, the position it was called at  *)
(* and what it returned.  A panic ends the run.                            *)
(***************************************************************************)
ReaderChars == {"<", "a", " ", "W1"}

RECURSIVE EncodeAll(_)
EncodeAll(cs) == IF cs = <<>> THEN <<>> ELSE Encode(Head(cs)) \o EncodeAll(Tail(cs))

ReaderSources ==
    {EncodeAll(cs) : cs \in UNION {[1..n -> ReaderChars] : n \in 0..MaxChars}}

\* the predicates skip_while is tried with
ReaderPreds == {WhitespaceChars, CommentChars, {"a"}}

\* the delimiters read_until is tried with
ReaderDelims == ReaderChars \cup {">"}

ReaderInit ==
    /\ data \in ReaderSources
    /\ pos = 0
    /\ pc = "reader"
    /\ ast = <<>>
    /\ tokens = NoResult
    /\ idx = 0
    /\ token_stack = <<>>
    /\ elements = <<>>
    /\ result = NoResult
    /\ html = <<>>
    /\ reparsed = NoResult
    /\ last = NoLast

\* the state after an operation called at pos that returned kind k and left the
\* position at p
ReaderAdvance(op, arg, pred, k, ch, span, p) ==
    /\ last' = [op |-> op, from |-> pos, arg |-> arg, pred |-> pred, kind |-> k,
                ch |-> ch, span |-> span]
    /\ pos' = p
    /\ pc' = IF k = "panic" THEN "panic" ELSE "reader"
    /\ UNCHANGED <<data, ast, tokens, idx, token_stack, elements, result, html,
                   reparsed>>

RdSeek ==
    /\ pc = "reader"
    /\ LET s == Seek(data, pos) IN
       ReaderAdvance("seek", "", {}, s.kind, s.ch, <<>>, pos)

RdRest ==
    /\ pc = "reader"
    /\ LET r == Rest(data, pos) IN
       ReaderAdvance("rest", "", {}, r.kind, "", r.span, pos)

RdIsEof ==
    /\ pc = "reader"
    /\ ReaderAdvance("is_eof", "", {}, IF IsEof(data, pos) THEN "true" ELSE "false",
                     "", <<>>, pos)

RdSkip ==
    /\ pc = "reader"
    /\ \E n \in 1..MaxSkip :
         /\ pos + n <= End(data) + MaxOver
         /\ ReaderAdvance("skip", "", {}, "ok", "", <<>>, Skip(pos, n))

RdSkipWhile ==
    /\ pc = "reader"
    /\ \E P \in ReaderPreds :
         LET r == SkipWhile(data, pos, P) IN
         ReaderAdvance("skip_while", "", P, r.kind, "", <<>>, r.pos)

RdReadUntil ==
    /\ pc = "reader"
    /\ \E delim \in ReaderDelims :
         LET r == ReadUntil(data, pos, delim) IN
         ReaderAdvance("read_until", delim, {}, r.kind, "", r.span, r.pos)

RdSeekUntil ==
    /\ pc = "reader"
    /\ \E delim \in ReaderDelims :
         LET r == SeekUntil(data, pos, delim) IN
         ReaderAdvance("seek_until", delim, {}, r.kind, "", r.span, pos)

RdReset ==
    /\ pc = "reader"
    /\ ReaderAdvance("reset", "", {}, "ok", "", <<>>, Reset)

ReaderNext ==
    \/ RdSeek
    \/ RdRest
    \/ RdIsEof
    \/ RdSkip
    \/ RdSkipWhile
    \/ RdReadUntil
    \/ RdSeekUntil
    \/ RdReset

ReaderSpec == ReaderInit /\ [][ReaderNext]_vars

(***************************************************************************)
(* Helpers of the properties.                                              *)
(***************************************************************************)
ErrDelimNotFound == [kind |-> "err", err |-> DelimNotFound, val |-> <<>>]
ErrInvalidAst == [kind |-> "err", err |-> InvalidAst, val |-> <<>>]

\* the type of the token the for loop processed last
LastType == IF idx >= 1 /\ idx <= Len(tokens.val) THEN tokens.val[idx].type ELSE "none"

\* the type of the token the for loop processes next
NextType == IF idx < Len(tokens.val) THEN tokens.val[idx + 1].type ELSE "none"

\* the number of tokens of type t among the first n of toks
RECURSIVE CountType(_, _, _)
CountType(toks, t, n) ==
    IF n = 0 THEN 0
    ELSE CountType(toks, t, n - 1) + (IF toks[n].type = t THEN 1 ELSE 0)

\* an element that has inner text and children, at any depth of e
RECURSIVE HasMixed(_)
HasMixed(e) ==
    \/ e.inner_text.some /\ e.children # <<>>
    \/ \E k \in 1..Len(e.children) : HasMixed(e.children[k])

ForestMixed(f) == \E k \in 1..Len(f) : HasMixed(f[k])

(***************************************************************************)
(* C1.  Round trip.                                                        *)
(***************************************************************************)
\* C1 (as amended): for every input that parse_html accepts, whose attribute
\* values contain no spaces and in which no element has both a text run and
\* child elements, parse_html(html_to_string(parse_html(input))) succeeds and
\* yields the same forest as parse_html(input).
C1_RoundTrip ==
    (pc = "reparsed" /\ ~ForestMixed(result.val))
        => (reparsed.kind = "ok" /\ reparsed.val = result.val)

\* two sibling elements, the first with a valued and a valueless attribute and
\* a child element, have made the round trip
C1_Witness ==
    /\ pc = "reparsed"
    /\ ~ForestMixed(result.val)
    /\ reparsed = result
    /\ Len(result.val) = 2
    /\ Len(result.val[1].attributes) = 2
    /\ Len(result.val[1].children) = 1

\* C1 as stated: the round trip holds for every accepted input, elements with
\* both text runs and child elements included
C1_RoundTripAll ==
    pc = "reparsed" => (reparsed.kind = "ok" /\ reparsed.val = result.val)

(***************************************************************************)
(* C2.  All-or-nothing error reporting.                                    *)
(***************************************************************************)
\* C2 as stated, for the tree builder: once tokenize_html has succeeded,
\* parse_html ends by returning a forest or an HtmlError value, also when an
\* EndTag token is processed while no element is open.
C2_ForestOrError ==
    (pc = "done" /\ tokens.kind = "ok") => result.kind \in {"ok", "err"}

(***************************************************************************)
(* C3.  Unclosed elements fail.                                            *)
(***************************************************************************)
\* C3: when tokenization succeeds and the open-element stack is non-empty after
\* the last token, parse_html returns InvalidAst and no forest, whatever
\* top-level elements were completed before.
C3_UnclosedFails ==
    (pc = "done" /\ tokens.kind = "ok" /\ token_stack # <<>>)
        => (idx = Len(tokens.val) /\ result = ErrInvalidAst)

\* an input with a completed top-level element and then an unclosed one was
\* rejected
C3_Witness ==
    /\ pc = "done"
    /\ tokens.kind = "ok"
    /\ token_stack # <<>>
    /\ elements # <<>>
    /\ CountType(tokens.val, "StartTag", Len(tokens.val))
           > CountType(tokens.val, "EndTag", Len(tokens.val))
    /\ result = ErrInvalidAst

(***************************************************************************)
(* C4.  Attribute and Text need an open element.                           *)
(***************************************************************************)
\* C4: an Attribute or Text token processed while the open-element stack is
\* empty makes parse_html return InvalidAst at that token.
C4_NeedsOpenElement ==
    [][(pc = "build" /\ NextType \in {"Attribute", "Text"} /\ token_stack = <<>>)
          => (pc' = "done" /\ result' = ErrInvalidAst /\ idx' = idx + 1)]_vars

\* a text run between two top-level elements was rejected at its token
C4_Witness ==
    /\ pc = "done"
    /\ result = ErrInvalidAst
    /\ LastType = "Text"
    /\ token_stack = <<>>
    /\ elements # <<>>
    /\ idx < Len(tokens.val)

(***************************************************************************)
(* C5.  A bare text run.                                                   *)
(***************************************************************************)
\* the input is one text run and nothing else: it has no '<' and starts with a
\* character that is no white space
IsBareText(d) ==
    /\ d # <<>>
    /\ ~IsWhitespace(Head(d))
    /\ \A k \in 1..Len(d) : d[k] # "<"

\* C5 (as amended): for an input that is a bare text run, tokenize_html returns
\* ReaderError(DelimNotFound) and no token, and parse_html returns that error
\* before the tree builder has processed anything; when the input starts with
\* a text run and tokenizes successfully (a tag follows the run), the Text
\* token comes first and parse_html returns InvalidAst from the tree builder,
\* at that token.
C5_BareText ==
    /\ (pc = "done" /\ IsBareText(data))
           => (tokens = ErrDelimNotFound /\ result = ErrDelimNotFound /\ idx = 0)
    /\ (pc = "done" /\ tokens.kind = "ok" /\ tokens.val # <<>>
            /\ tokens.val[1].type = "Text")
           => (result = ErrInvalidAst /\ idx = 1)

\* parse_html has returned for the bare text run "t"
C5_Witness ==
    /\ pc = "done"
    /\ data = FragText
    /\ result = ErrDelimNotFound

\* C5 as stated: on a bare text run tokenize_html succeeds with the Text token
\* and parse_html returns InvalidAst
C5_BareTextTokenizes ==
    (pc = "done" /\ IsBareText(data))
        => (tokens.kind = "ok" /\ tokens.val = <<Text(data)>> /\ result = ErrInvalidAst)

(***************************************************************************)
(* C6.  Missing delimiters are reader errors.                              *)
(***************************************************************************)
\* character c does not occur in the input after the cursor
NoneAhead(c) == \A k \in (pos + 1)..Len(data) : data[k] # c

\* the tokenizer is at a text run that no '<' follows, or at a start tag or
\* close tag that no '>' follows
AtUnterminated ==
    /\ pc = "tokenize"
    /\ \/ TokBranch(data, pos) = "text" /\ NoneAhead("<")
       \/ TokBranch(data, pos) \in {"starttag", "endtag"} /\ NoneAhead(">")

\* C6: when the tokenizer comes to a text run that no '<' follows before the end
\* of input, or to a start tag or close tag that no '>' follows, tokenize_html
\* and parse_html both return ReaderError(DelimNotFound), with no tokens and no
\* forest; and whenever tokenize_html fails, that is what both return.
C6_MissingDelimiter ==
    /\ [][AtUnterminated
            => (pc' = "done" /\ tokens' = ErrDelimNotFound
                  /\ result' = ErrDelimNotFound /\ idx' = 0 /\ elements' = <<>>)]_vars
    /\ []((pc = "done" /\ tokens.kind = "err")
            => (tokens = ErrDelimNotFound /\ result = ErrDelimNotFound /\ idx = 0))

\* a text run after the last tag of the input: the tokens pushed before it are
\* not returned
C6_Witness ==
    /\ pc = "done"
    /\ tokens = ErrDelimNotFound
    /\ result = ErrDelimNotFound
    /\ ast # <<>>
    /\ data # <<>>
    /\ data[Len(data)] = "t"
    /\ \E k \in 1..Len(data) : data[k] = ">"

(***************************************************************************)
(* C7.  read_until.                                                        *)
(***************************************************************************)
\* the offsets, from the position read_until was called at, where its delimiter
\* occurs
DelimOffsets ==
    {i \in 0..(Len(data) - last.from - 1) : data[last.from + i + 1] = last.arg}

C8_PastEndIsEof ==
    last.from > Len(data)
        => /\ last.op = "is_eof" => last.kind = "true"
           /\ last.op = "seek" => last.kind = "none"
           /\ last.op = "rest" => (last.kind = "ok" /\ last.span = <<>>)
           /\ last.op = "skip_while" => (last.kind = "ok" /\ pos = last.from)
           /\ last.op = "read_until" => last.kind = "err"

(***************************************************************************)
(* C9.  Token order is document order.                                     *)
(***************************************************************************)
\* the tokens a loop iteration of the tokenizer has pushed
Pushed == SubSeq(ast', Len(ast) + 1, Len(ast'))

\* the text the iteration has scanned
Scanned == SubSeq(data, pos + 1, pos')

\* the name and the value of the tokens toks, in the order of the tokens
RECURSIVE Pieces(_)
Pieces(toks) ==
    IF toks = <<>> THEN <<>>
    ELSE <<Head(toks).name>>
             \o (IF Head(toks).value.some THEN <<Head(toks).value.val>> ELSE <<>>)
             \o Pieces(Tail(toks))

\* the strings ps occur in text one after the other, from offset from on
RECURSIVE OccurInOrder(_, _, _)
OccurInOrder(ps, text, from) ==
    IF ps = <<>> THEN TRUE
    ELSE \E o \in from..(Len(text) - Len(Head(ps))) :
             /\ SubSeq(text, o + 1, o + Len(Head(ps))) = Head(ps)
             /\ OccurInOrder(Tail(ps), text, o + Len(Head(ps)))

\* one iteration that did not fail: the tokens pushed before stay as they are,
\* the cursor does not move back, and the tokens pushed are those of the
\* construct scanned, the StartTag first and the attributes left to right
C9_Step ==
    (pc = "tokenize" /\ pc' \in {"tokenize", "build"})
        => /\ pos' >= pos
           /\ Len(ast') >= Len(ast)
           /\ SubSeq(ast', 1, Len(ast)) = ast
           /\ TokBranch(data, pos) = "starttag"
                  => /\ Pushed # <<>>
                     /\ Pushed[1].type = "StartTag"
                     /\ \A k \in 2..Len(Pushed) : Pushed[k].type = "Attribute"
                     /\ OccurInOrder(<<<<"<">>>> \o Pieces(Pushed), Scanned, 0)
           /\ TokBranch(data, pos) = "text"
                  => /\ Len(Pushed) = 1
                     /\ Pushed[1].type = "Text"
                     /\ Pushed[1].name # <<>>
                     /\ Pushed[1].name
                            = SubSeq(Scanned, Len(Scanned) - Len(Pushed[1].name) + 1,
                                     Len(Scanned))
           /\ TokBranch(data, pos) = "endtag" => Pushed = <<EndTag>>
           /\ TokBranch(data, pos) \in {"comment", "eof"} => Pushed = <<>>

\* in what tokenize_html returns, an Attribute token follows a StartTag token or
\* another Attribute token
C9_AttributesFollowTag ==
    tokens.kind = "ok"
        => \A k \in 1..Len(tokens.val) :
               tokens.val[k].type = "Attribute"
                   => (k > 1 /\ tokens.val[k - 1].type \in {"StartTag", "Attribute"})

\* C9: for every input that tokenizes successfully, each start tag gives
\* StartTag(name) followed immediately by its Attribute tokens in left-to-right
\* order, before any token of the element's content, and the tokens of a
\* construct that starts earlier in the input precede those of one that starts
\* later.
C9_DocumentOrder == [][C9_Step]_vars /\ []C9_AttributesFollowTag

\* `<a><a b="v" d>t</a>` has been tokenized
C9_Witness ==
    /\ tokens.kind = "ok"
    /\ tokens.val = <<StartTag(<<"a">>), StartTag(<<"a">>),
                      Attribute(<<"b">>, Some(<<"v">>)), Attribute(<<"d">>, None),
                      Text(<<"t">>), EndTag>>

(***************************************************************************)
(* C10.  Comments are elided.                                              *)
(***************************************************************************)
\* C10 as stated: at every `<!` ... `>` construct, tokenize_html pushes no token
\* and resumes scanning at the character immediately after the first '>' that
\* follows the `<!`.
C10_CommentElided ==
    [][(pc = "tokenize" /\ TokBranch(data, pos) = "comment" /\ ~NoneAhead(">"))
          => /\ pc' = "tokenize"
             /\ ast' = ast
             /\ pos' > pos
             /\ data[pos'] = ">"
             /\ \A k \in (pos + 1)..(pos' - 1) : data[k] # ">"]_vars

(***************************************************************************)
(* C11.  An EndTag closes the most recently opened element.                *)
(***************************************************************************)
\* the tag and the attributes of every element of a forest, parents before
\* their children and siblings from first to last
RECURSIVE Preorder(_)
Preorder(f) ==
    IF f = <<>> THEN <<>>
    ELSE <<[tag |-> Head(f).tag, attributes |-> Head(f).attributes]>>
             \o Preorder(Head(f).children) \o Preorder(Tail(f))

\* the tag and the attributes of every start tag among the first n tokens of
\* toks, in token order
RECURSIVE Opened(_, _)
Opened(toks, n) ==
    IF n = 0 THEN <<>>
    ELSE LET o == Opened(toks, n - 1)
             tok == toks[n]
         IN  IF tok.type = "StartTag"
             THEN Append(o, [tag |-> tok.name, attributes |-> <<>>])
             ELSE IF tok.type = "Attribute" /\ o # <<>>
             THEN [o EXCEPT ![Len(o)].attributes =
                      Append(@, HtmlAttribute(tok.name, tok.value))]
             ELSE o

\* the input d with the name of every close tag `</a` changed to b
RenameClose(d) ==
    [k \in 1..Len(d) |->
        IF k >= 3 /\ d[k - 2] = "<" /\ d[k - 1] = "/" /\ d[k] = "a"
        THEN "b" ELSE d[k]]

\* an EndTag token processed while an element is open pops the element opened
\* last and appends it after its siblings
C11_Step ==
    (pc = "build" /\ NextType = "EndTag" /\ token_stack # <<>>)
        => /\ pc' = "build"
           /\ Len(token_stack') = Len(token_stack) - 1
           /\ \A k \in 2..Len(token_stack') : token_stack'[k] = token_stack[k + 1]
           /\ Len(token_stack) > 1
                 => /\ token_stack'[1].children
                           = Append(token_stack[2].children, token_stack[1])
                    /\ token_stack'[1].tag = token_stack[2].tag
                    /\ token_stack'[1].attributes = token_stack[2].attributes
                    /\ token_stack'[1].inner_text = token_stack[2].inner_text
                    /\ elements' = elements
           /\ Len(token_stack) = 1
                 => elements' = Append(elements, token_stack[1])

\* in a successful parse the elements of the forest, parents first, are the
\* start tags of the input in document order, and the names written in the
\* close tags do not matter
C11_Forest ==
    (pc = "done" /\ result.kind = "ok")
        => /\ Preorder(result.val) = Opened(tokens.val, Len(tokens.val))
           /\ ParseHtml(RenameClose(data)) = result

\* C11: each EndTag closes the most recently opened element that is still
\* open, whatever name the close tag has: the closed element becomes the last
\* child of the new top of the stack, or the last member of the forest when the
\* stack is empty; so the forest and every children list are in the document
\* order of their start tags, and inputs that differ only in the names of their
\* close tags parse to the same forest.
C11_EndTagClosesLast == [][C11_Step]_vars /\ []C11_Forest

\* `<a></a><a b="v" d><a></a></a>` has been parsed: the second top-level
\* element was closed after its child and after its elder sibling
C11_Witness ==
    /\ pc = "done"
    /\ result.kind = "ok"
    /\ RenameClose(data) # data
    /\ Len(result.val) = 2
    /\ result.val[1].attributes = <<>>
    /\ Len(result.val[2].attributes) = 2
    /\ Len(result.val[2].children) = 1

(***************************************************************************)
(* C12.  The text html_to_string renders.                                  *)
(***************************************************************************)
\* ` name="value"` for an attribute whose value is present, ` name` otherwise
RenderAttribute(a) ==
    <<" ">> \o a.name
        \o (IF a.value = None THEN <<>> ELSE <<"=", "\"">> \o a.value.val \o <<"\"">>)

RECURSIVE RenderAttributes(_)
RenderAttributes(as) ==
    IF as = <<>> THEN <<>>
    ELSE RenderAttribute(Head(as)) \o RenderAttributes(Tail(as))

\* `<tag`, the attributes, `>`, the content, `</tag>` for every element of the
\* forest f in order; the content is the inner text when there is one and the
\* rendering of the children otherwise
RECURSIVE Render(_)
Render(f) ==
    IF f = <<>> THEN <<>>
    ELSE LET e == Head(f) IN
         <<"<">> \o e.tag \o RenderAttributes(e.attributes) \o <<">">>
             \o (IF e.inner_text # None THEN e.inner_text.val ELSE Render(e.children))
             \o <<"<", "/">> \o e.tag \o <<">">>
             \o Render(Tail(f))

\* C12: html_to_string renders every element as `<tag`, each attribute in
\* stored order as ` name="value"` or ` name`, `>`, the content and `</tag>`;
\* the content is the inner text when present and the rendering of the children
\* otherwise; elements with and without attributes are rendered alike, and the
\* top-level elements are concatenated in forest order without separators.
C12_Rendering ==
    pc \in {"serialized", "reparsed"} => html = Render(result.val)

\* `<a b="v" d>t<a></a></a>` has been parsed and rendered: the element has a
\* valued and a valueless attribute, an inner text and a child
C12_Witness ==
    /\ pc = "serialized"
    /\ Len(result.val) = 1
    /\ Len(result.val[1].attributes) = 2
    /\ result.val[1].inner_text = Some(<<"t">>)
    /\ Len(result.val[1].children) = 1
    /\ html = <<"<", "a", " ", "b", "=", "\"", "v", "\"", " ", "d", ">", "t",
                "<", "/", "a", ">">>

(***************************************************************************)
(* C13.  No dangling elements.                                             *)
(***************************************************************************)
\* the number of elements of the forest f, at all depths
RECURSIVE CountElements(_)
CountElements(f) ==
    IF f = <<>> THEN 0
    ELSE 1 + CountElements(Head(f).children) + CountElements(Tail(f))

\* C13: after every token the tree builder has processed, the depth of the
\* open-element stack is the number of StartTag tokens processed minus the
\* number of EndTag tokens processed (an EndTag met while no element is open
\* aborts the program and leaves no state behind); and in a successful parse
\* the number of elements of the forest, at all depths, is the number of
\* StartTag tokens and the number of EndTag tokens of the input.
C13_NoDangling ==
    /\ (pc \in {"build", "done"} /\ tokens.kind = "ok" /\ result.kind # "panic")
           => Len(token_stack) = CountType(tokens.val, "StartTag", idx)
                                     - CountType(tokens.val, "EndTag", idx)
    /\ (pc = "done" /\ result.kind = "ok")
           => /\ CountElements(result.val)
                     = CountType(tokens.val, "StartTag", Len(tokens.val))
              /\ CountElements(result.val)
                     = CountType(tokens.val, "EndTag", Len(tokens.val))

\* `<a><a></a></a><a></a>` has been parsed: three start tags, three close
\* tags, three elements, two of them at top level
C13_Witness ==
    /\ pc = "done"
    /\ result.kind = "ok"
    /\ CountType(tokens.val, "StartTag", Len(tokens.val)) = 3
    /\ CountElements(result.val) = 3
    /\ Len(result.val) = 2
    /\ Len(result.val[1].children) = 1

(***************************************************************************)
(* One start tag with attribute text: tokenize_html on `<a ` body `>`, for *)
(* every body of at most MaxTag characters of TagChars.                    *)
(***************************************************************************)
MaxTag == 7

TagChars == {" ", "=", "\"", "v"}

TagInputs ==
    {<<"<", "a", " ">> \o body \o <<">">> :
        body \in UNION {[1..n -> TagChars] : n \in 0..MaxTag}}

TagInit ==
    /\ data \in TagInputs
    /\ pos = 0
    /\ pc = "tokenize"
    /\ ast = <<>>
    /\ tokens = NoResult
    /\ idx = 0
    /\ token_stack = <<>>
    /\ elements = <<>>
    /\ result = NoResult
    /\ html = <<>>
    /\ reparsed = NoResult
    /\ last = NoLast

TagNext ==
    \/ TokStartTag
    \/ TokEof

TagSpec == TagInit /\ [][TagNext]_vars

\* the text after the tag name of the start tag d, trimmed, and the fragments
\* between its spaces
AttrText(d) ==
    LET tag == SubSeq(d, 2, Len(d) - 1)
    IN  Trim(SubSeq(tag, Find(tag, " ") + 1, Len(tag)))

AttrFragments(d) == Split(AttrText(d), " ")

(***************************************************************************)
(* C14.  Attribute value extraction.                                       *)
(***************************************************************************)
\* the value the claim gives: surrounding white space removed, then one pair
\* of double quotes removed when the value starts and ends with one
ClaimedValue(v) ==
    LET t == Trim(v) IN
    IF Len(t) >= 2 /\ t[1] = "\"" /\ t[Len(t)] = "\""
    THEN SubSeq(t, 2, Len(t) - 1)
    ELSE t

ClaimedAttribute(f) ==
    LET i == Find(f, "=") IN
    IF i >= 0
    THEN Attribute(SubSeq(f, 1, i), Some(ClaimedValue(SubSeq(f, i + 2, Len(f)))))
    ELSE Attribute(f, None)

\* C14 as stated: the Attribute token of a fragment with '=' has the part
\* before the first '=' as its name and, as its value, the rest with
\* surrounding white space removed and exactly one pair of double quotes
\* removed, only when the value starts and ends with a double quote; a
\* fragment without '=' gives no value.
C14_ValueExtraction ==
    ast # <<>>
        => ast = <<StartTag(<<"a">>)>>
                     \o [k \in 1..Len(AttrFragments(data)) |->
                            ClaimedAttribute(AttrFragments(data)[k])]

(***************************************************************************)
(* C15.  Attribute text is cut at every space.                             *)
(***************************************************************************)
\* the number of spaces of s
SpacesIn(s) == Cardinality({k \in 1..Len(s) : s[k] = " "})

\* s has a space between the quotes of a quoted attribute value
QuotedSpace(s) ==
    \E i, j, k \in 1..Len(s) :
        /\ 1 < i /\ i < j /\ j < k
        /\ s[i - 1] = "=" /\ s[i] = "\"" /\ s[j] = " " /\ s[k] = "\""
        /\ \A m \in (i + 1)..(k - 1) : s[m] # "\""

\* C15: the text after the tag name is cut at every single space, inside double
\* quotes or not: after StartTag comes one Attribute token for each of the
\* fragments the spaces delimit, none of them has a space in its name or value,
\* and a quoted value with a space in it gives more than one Attribute token.
C15_SplitAtEverySpace ==
    ast # <<>>
        => /\ ast[1] = StartTag(<<"a">>)
           /\ Len(ast) = 1 + SpacesIn(AttrText(data)) + 1
           /\ \A k \in 2..Len(ast) :
                 /\ ast[k].type = "Attribute"
                 /\ SpacesIn(ast[k].name) = 0
                 /\ ast[k].value # None => SpacesIn(ast[k].value.val) = 0
           /\ QuotedSpace(AttrText(data)) => Len(ast) > 2

\* `<a v="v v">` has been tokenized: two Attribute tokens
C15_Witness ==
    /\ data = <<"<", "a", " ", "v", "=", "\"", "v", " ", "v", "\"", ">">>
    /\ QuotedSpace(AttrText(data))
    /\ ast = <<StartTag(<<"a">>), Attribute(<<"v">>, Some(<<"v">>)),
               Attribute(<<"v", "\"">>, None)>>

(***************************************************************************)
(* C16.  skip_while over multi-byte characters.                            *)
(***************************************************************************)
\* C16 as stated: skip_while(pred), called at a character boundary of the
\* source, returns with the position at the start of the first character that
\* does not satisfy pred, or at the end of the source, having passed only
\* characters that satisfy pred; the position is a character boundary inside
\* the source, so seek and rest are defined afterwards.
C16_SkipWhileBoundary ==
    (last.op = "skip_while" /\ last.from <= Len(data)
         /\ IsCharBoundary(data, last.from))
        => /\ last.kind = "ok"
           /\ pos <= Len(data)
           /\ IsCharBoundary(data, pos)
           /\ pos < Len(data) => data[pos + 1] \notin last.pred
           /\ \A k \in (last.from + 1)..pos :
                 IsCharBoundary(data, k - 1) => data[k] \in last.pred
           /\ Rest(data, pos).kind = "ok"
           /\ Seek(data, pos).kind # "panic"

(***************************************************************************)
(* C17.  tokenize_html terminates.                                         *)
(***************************************************************************)
\* tokenize_html alone, on the inputs made of at most MaxLive of these
\* fragments, with its main loop running on: an iteration that can be taken is
\* taken
MaxLive == 2

LiveFragments == {FragStart, FragEnd, FragText, FragSpace, FragComment, FragNbsp}

LiveWhole ==
    {Flatten(fs) : fs \in UNION {[1..n -> LiveFragments] : n \in 0..MaxLive}}

LiveInputs ==
    LiveWhole \cup {SubSeq(w, 1, Len(w) - 1) :
                      w \in {x \in LiveWhole : x # <<>> /\ x[Len(x)] = ">"}}

LiveInit ==
    /\ data \in LiveInputs
    /\ pos = 0
    /\ pc = "tokenize"
    /\ ast = <<>>
    /\ tokens = NoResult
    /\ idx = 0
    /\ token_stack = <<>>
    /\ elements = <<>>
    /\ result = NoResult
    /\ html = <<>>
    /\ reparsed = NoResult
    /\ last = NoLast

TokNext ==
    \/ TokPanic
    \/ TokEof
    \/ TokEndTag
    \/ TokComment
    \/ TokStartTag
    \/ TokText

LiveSpec == LiveInit /\ [][TokNext]_vars /\ WF_vars(TokNext)

\* one iteration of the main loop: the position does not decrease, and the
\* iteration ends the run or moves the position forward
C17_Step ==
    pc = "tokenize"
        => /\ pos' >= pos
           /\ pc' # "tokenize" \/ pos' > pos

\* the position is at most one past the end of the input, and a run that has
\* ended has returned the tokens, returned a reader error, or aborted
C17_Bounded ==
    /\ pos <= Len(data) + 1
    /\ pc # "tokenize" => tokens.kind \in {"ok", "err", "panic"}
    /\ tokens.kind = "ok" => pos = Len(data)
    /\ tokens.kind = "err" => tokens.err = DelimNotFound

\* C17: tokenize_html terminates on every input: the cursor position never
\* decreases, every iteration of the main loop ends the run or strictly
\* increases the position, the position is bounded by the length of the input,
\* and every run ends.
C17_Terminates == [][C17_Step]_vars /\ []C17_Bounded /\ <>(pc # "tokenize")

\* `t</a>` has been tokenized: after a text run, a close tag and the end of
\* the input, the run has ended at the end of the input
C17_Witness ==
    /\ pc = "build"
    /\ tokens.kind = "ok"
    /\ pos = Len(data)
    /\ pos = 5
    /\ ast = <<Text(<<"t">>), EndTag>>

(***************************************************************************)
(* C18.  The last text run wins.                                           *)
(***************************************************************************)
\* the inner text of every element of a forest, parents before their children
RECURSIVE PreorderTexts(_)
PreorderTexts(f) ==
    IF f = <<>> THEN <<>>
    ELSE <<Head(f).inner_text>> \o PreorderTexts(Head(f).children)
             \o PreorderTexts(Tail(f))

\* the last text run directly inside the element whose StartTag is just before
\* token i of toks: depth counts the elements open inside it, text is the last
\* direct run seen so far
RECURSIVE LastDirectText(_, _, _, _)
LastDirectText(toks, i, depth, text) ==
    IF i > Len(toks) THEN text
    ELSE IF toks[i].type = "StartTag" THEN LastDirectText(toks, i + 1, depth + 1, text)
    ELSE IF toks[i].type = "EndTag"
    THEN IF depth = 0 THEN text ELSE LastDirectText(toks, i + 1, depth - 1, text)
    ELSE IF toks[i].type = "Text" /\ depth = 0
    THEN LastDirectText(toks, i + 1, depth, Some(toks[i].name))
    ELSE LastDirectText(toks, i + 1, depth, text)

\* that text run for every StartTag among the tokens from i on, in token order
RECURSIVE DirectTexts(_, _)
DirectTexts(toks, i) ==
    IF i > Len(toks) THEN <<>>
    ELSE IF toks[i].type = "StartTag"
    THEN <<LastDirectText(toks, i + 1, 0, None)>> \o DirectTexts(toks, i + 1)
    ELSE DirectTexts(toks, i + 1)

\* a Text token processed while an element is open sets the inner text of the
\* element on top of the stack and changes nothing else
C18_Step ==
    (pc = "build" /\ NextType = "Text" /\ token_stack # <<>>)
        => /\ pc' = "build"
           /\ elements' = elements
           /\ Len(token_stack') = Len(token_stack)
           /\ \A k \in 2..Len(token_stack) : token_stack'[k] = token_stack[k]
           /\ token_stack'[1].inner_text = Some(tokens.val[idx + 1].name)
           /\ token_stack'[1].tag = token_stack[1].tag
           /\ token_stack'[1].attributes = token_stack[1].attributes
           /\ token_stack'[1].children = token_stack[1].children

\* C18: each Text token sets the inner text of the element on top of the stack,
\* replacing any earlier value, and leaves the element's tag, attributes and
\* children unchanged; after a successful parse the inner text of every element
\* is its last direct text run (none when it has no text run).
C18_LastTextWins ==
    /\ [][C18_Step]_vars
    /\ []((pc = "done" /\ result.kind = "ok")
              => PreorderTexts(result.val) = DirectTexts(tokens.val, 1))

\* `<a>t<a></a>v</a>` has been parsed: the element has the text runs t and v,
\* with a child between them, and its inner text is v
C18_Witness ==
    /\ pc = "done"
    /\ result.kind = "ok"
    /\ CountType(tokens.val, "Text", Len(tokens.val)) = 2
    /\ tokens.val[2] = Text(<<"t">>)
    /\ Len(result.val) = 1
    /\ Len(result.val[1].children) = 1
    /\ result.val[1].inner_text = Some(<<"v">>)
    /\ result.val[1].children[1].inner_text = None

(***************************************************************************)
(* C19.  White space between constructs.                                   *)
(***************************************************************************)
\* every Text token pushed so far is non-empty, starts with a character that
\* is no white space and has no '<'
TextTokensWellFormed ==
    \A k \in 1..Len(ast) :
        ast[k].type = "Text"
            => /\ ast[k].name # <<>>
               /\ ~IsWhitespace(Head(ast[k].name))
               /\ \A m \in 1..Len(ast[k].name) : ast[k].name[m] # "<"

\* only white space is left between the cursor and the end of the input
OnlyWhitespaceAhead ==
    /\ pos < Len(data)
    /\ IsCharBoundary(data, pos)
    /\ \A k \in (pos + 1)..Len(data) :
          IsCharBoundary(data, k - 1) => IsWhitespace(data[k])

\* C19 as stated: every Text token is non-empty, starts with a character that
\* is no white space and contains no '<'; and a run of white space yields no
\* token, so that when only white space is left of the input, tokenize_html
\* ends successfully with the tokens it has.
C19_WhitespaceNoToken ==
    /\ []TextTokensWellFormed
    /\ [][(pc = "tokenize" /\ OnlyWhitespaceAhead)
             => (pc' = "build" /\ tokens'.kind = "ok" /\ tokens'.val = ast)]_vars

(***************************************************************************)
(* C20.  Attribute names are non-empty.                                    *)
(***************************************************************************)
\* C20 as stated: every Attribute token has a non-empty name: a start tag with
\* only spaces between the tag name and '>' yields StartTag and no Attribute
\* token, and consecutive spaces between two attributes yield no Attribute
\* token with an empty name.
C20_AttributeNamed ==
    /\ \A k \in 1..Len(ast) : ast[k].type = "Attribute" => ast[k].name # <<>>
    /\ (ast # <<>> /\ AttrText(data) = <<>>) => ast = <<StartTag(<<"a">>)>>

====
